---- MODULE Spec2Model ----
(***************************************************************************)
(* rdfconvert: batch conversion of RDF files.  The model covers the file   *)
(* discovery, the output path resolution and the per-file driver           *)
(* (self-overwrite check, overwrite prompt, simulate, makedirs, write) of  *)
(* src/src/rdfconvert.py (main, process_input_files, get_output_abs_path)  *)
(* and of the older single-block script src/rdfconvert.py, which differs   *)
(* in the call that reads the overwrite answer.                            *)
(*                                                                         *)
(* Strings are sequences of one-character strings, so that the path        *)
(* functions of os.path and fnmatch are computed character by character,   *)
(* as the library does.                                                    *)
(***************************************************************************)
EXTENDS Integers, Sequences, FiniteSets, TLC

(***************************************************************************)
(* Bounds of the model.                                                    *)
(***************************************************************************)
\* number of INPUT arguments of one run (argparse nargs="+": at least one)
MaxRoots == 2

(***************************************************************************)
(* String helpers (Python str operations used by the code).                *)
(***************************************************************************)
\* s[:n]
Take(s, n) == SubSeq(s, 1, IF n > Len(s) THEN Len(s) ELSE n)

\* s[n:]
Drop(s, n) == SubSeq(s, n + 1, Len(s))

\* s.startswith(p)
StartsWith(s, p) == Len(p) <= Len(s) /\ SubSeq(s, 1, Len(p)) = p

\* s.endswith(p)
EndsWith(s, p) == Len(p) <= Len(s) /\ SubSeq(s, Len(s) - Len(p) + 1, Len(s)) = p

\* the 1-based index of the last c in s[:n], 0 when there is none
RECURSIVE RFindFrom(_, _, _)
RFindFrom(s, c, n) ==
    IF n = 0 THEN 0 ELSE IF s[n] = c THEN n ELSE RFindFrom(s, c, n - 1)

\* s.rfind(c) + 1: the 1-based index of the last c in s, 0 when there is none
RFind(s, c) == RFindFrom(s, c, Len(s))

\* s.rstrip(c)
RECURSIVE RStrip(_, _)
RStrip(s, c) ==
    IF s # <<>> /\ s[Len(s)] = c THEN RStrip(SubSeq(s, 1, Len(s) - 1), c) ELSE s

\* s[i:].split(c), where cur is the part of the component at hand that
\* lies before position i
RECURSIVE StrSplitFrom(_, _, _, _)
StrSplitFrom(s, c, i, cur) ==
    IF i > Len(s) THEN <<cur>>
    ELSE IF s[i] = c THEN <<cur>> \o StrSplitFrom(s, c, i + 1, <<>>)
    ELSE StrSplitFrom(s, c, i + 1, Append(cur, s[i]))

\* s.split(c): the sequence of the components of s between the separators c
StrSplit(s, c) == StrSplitFrom(s, c, 1, <<>>)

\* c.join(comps)
RECURSIVE StrJoin(_, _)
StrJoin(comps, c) ==
    IF comps = <<>> THEN <<>>
    ELSE IF Len(comps) = 1 THEN comps[1]
    ELSE comps[1] \o <<c>> \o StrJoin(Tail(comps), c)

\* str.lower(), on the upper-case letters the model uses
LowerChar(c) ==
    CASE c = "Y" -> "y"
      [] c = "E" -> "e"
      [] c = "S" -> "s"
      [] c = "N" -> "n"
      [] c = "O" -> "o"
      [] c = "T" -> "t"
      [] c = "L" -> "l"
      [] OTHER -> c

Lower(s) == [i \in 1..Len(s) |-> LowerChar(s[i])]

(***************************************************************************)
(* posixpath                                                               *)
(***************************************************************************)
\* the working directory of the process
Cwd == <<"/", "w">>

\* os.path.join(a, b)
Join(a, b) ==
    IF StartsWith(b, <<"/">>) THEN b
    ELSE IF a = <<>> \/ EndsWith(a, <<"/">>) THEN a \o b
    ELSE a \o <<"/">> \o b

\* os.path.split(p): <<head, tail>>
Split(p) ==
    LET i    == RFind(p, "/")
        head == Take(p, i)
        tail == Drop(p, i)
    IN  IF head # <<>> /\ RStrip(head, "/") # <<>>
        THEN <<RStrip(head, "/"), tail>>
        ELSE <<head, tail>>

\* os.path.dirname(p)
Dirname(p) == Split(p)[1]

\* os.path.splitext(p): <<root, ext>>; leading dots of the basename are not
\* an extension
SplitExt(p) ==
    LET sepIndex == RFind(p, "/")
        dotIndex == RFind(p, ".")
    IN  IF dotIndex > sepIndex
           /\ \E k \in (sepIndex + 1)..(dotIndex - 1) : p[k] # "."
        THEN <<Take(p, dotIndex - 1), Drop(p, dotIndex - 1)>>
        ELSE <<p, <<>>>>

\* the loop of os.path.normpath over the components of the path
RECURSIVE NormComps(_, _, _)
NormComps(comps, new, initial) ==
    IF comps = <<>> THEN new
    ELSE LET comp == Head(comps)
         IN  IF comp = <<>> \/ comp = <<".">> THEN NormComps(Tail(comps), new, initial)
             ELSE IF comp # <<".", ".">>
                     \/ (initial = 0 /\ new = <<>>)
                     \/ (new # <<>> /\ new[Len(new)] = <<".", ".">>)
             THEN NormComps(Tail(comps), Append(new, comp), initial)
             ELSE IF new # <<>>
             THEN NormComps(Tail(comps), SubSeq(new, 1, Len(new) - 1), initial)
             ELSE NormComps(Tail(comps), new, initial)

\* os.path.normpath(p)
NormPath(p) ==
    IF p = <<>> THEN <<".">>
    ELSE LET initial == IF ~StartsWith(p, <<"/">>) THEN 0
                        ELSE IF StartsWith(p, <<"/", "/">>) /\ ~StartsWith(p, <<"/", "/", "/">>)
                             THEN 2 ELSE 1
             body    == StrJoin(NormComps(StrSplit(p, "/"), <<>>, initial), "/")
             res     == [i \in 1..initial |-> "/"] \o body
         IN  IF res = <<>> THEN <<".">> ELSE res

\* os.path.abspath(p)
AbsPath(p) == NormPath(IF StartsWith(p, <<"/">>) THEN p ELSE Join(Cwd, p))

\* os.path.commonprefix([a, b]): the longest common leading string,
\* compared character by character (not by path component)
RECURSIVE CommonPrefix(_, _)
CommonPrefix(a, b) ==
    IF a = <<>> \/ b = <<>> \/ Head(a) # Head(b) THEN <<>>
    ELSE <<Head(a)>> \o CommonPrefix(Tail(a), Tail(b))

(***************************************************************************)
(* fnmatch                                                                 *)
(***************************************************************************)
\* the index of the "]" closing the bracket expression that opens before
\* position i of pat (fnmatch.translate: a leading "!" and a leading "]"
\* are part of the expression); 0 when the bracket is not closed
ClosingBracket(pat, i) ==
    LET j1 == IF i <= Len(pat) /\ pat[i] = "!" THEN i + 1 ELSE i
        j2 == IF j1 <= Len(pat) /\ pat[j1] = "]" THEN j1 + 1 ELSE j1
        J  == {j \in j2..Len(pat) : pat[j] = "]"}
    IN  IF J = {} THEN 0 ELSE CHOOSE j \in J : \A k \in J : j <= k

\* fnmatch.fnmatchcase(name, pat): "*" matches any string, "?" any one
\* character, "[seq]" one character of seq, "[!seq]" one character not in
\* seq; any other character matches itself
RECURSIVE FnMatch(_, _)
FnMatch(name, pat) ==
    IF pat = <<>> THEN name = <<>>
    ELSE IF Head(pat) = "*"
    THEN FnMatch(name, Tail(pat)) \/ (name # <<>> /\ FnMatch(Tail(name), pat))
    ELSE IF Head(pat) = "?"
    THEN name # <<>> /\ FnMatch(Tail(name), Tail(pat))
    ELSE IF Head(pat) = "[" /\ ClosingBracket(pat, 2) # 0
    THEN LET j     == ClosingBracket(pat, 2)
             stuff == SubSeq(pat, 2, j - 1)
             neg   == Head(stuff) = "!"
             chars == {stuff[k] : k \in (IF neg THEN 2 ELSE 1)..Len(stuff)}
         IN  /\ name # <<>>
             /\ (Head(name) \in chars) # neg
             /\ FnMatch(Tail(name), Drop(pat, j))
    ELSE name # <<>> /\ Head(name) = Head(pat) /\ FnMatch(Tail(name), Tail(pat))

\* a fnmatch.filter that folds the case of the names and of the pattern (what
\* os.path.normcase does on a case-insensitive platform); a faulty variant
\* of FnFilter, used to show that C10 depends on it
RECURSIVE FnFilterNoCase(_, _)
FnFilterNoCase(names, pat) ==
    IF names = <<>> THEN <<>>
    ELSE (IF FnMatch(Lower(Head(names)), Lower(pat)) THEN <<Head(names)>> ELSE <<>>)
         \o FnFilterNoCase(Tail(names), pat)

\* fnmatch.filter(names, pat): the names that match, in the order of names
RECURSIVE FnFilter(_, _)
FnFilter(names, pat) ==
    IF names = <<>> THEN <<>>
    ELSE (IF FnMatch(Head(names), pat) THEN <<Head(names)>> ELSE <<>>)
         \o FnFilter(Tail(names), pat)

(***************************************************************************)
(* The format tables.                                                      *)
(***************************************************************************)
INPUT_FORMAT_TO_EXTENSIONS ==
    [f \in {"application/rdf+xml", "text/html", "xml", "rdf-json", "json-ld", "ttl", "nt", "nquads", "trix", "rdfa", "n3"} |->
        CASE f = "application/rdf+xml" -> <<<<".", "x", "m", "l">>, <<".", "r", "d", "f">>, <<".", "o", "w", "l">>>>
          [] f = "text/html" -> <<<<".", "h", "t", "m", "l">>>>
          [] f = "xml" -> <<<<".", "x", "m", "l">>, <<".", "r", "d", "f">>, <<".", "o", "w", "l">>>>
          [] f = "rdf-json" -> <<<<".", "j", "s", "o", "n">>>>
          [] f = "json-ld" -> <<<<".", "j", "s", "o", "n", "l", "d">>, <<".", "j", "s", "o", "n", "-", "l", "d">>>>
          [] f = "ttl" -> <<<<".", "t", "t", "l">>>>
          [] f = "nt" -> <<<<".", "n", "t">>>>
          [] f = "nquads" -> <<<<".", "n", "q">>>>
          [] f = "trix" -> <<<<".", "x", "m", "l">>, <<".", "t", "r", "i", "x">>>>
          [] f = "rdfa" -> <<<<".", "x", "h", "t", "m", "l">>, <<".", "h", "t", "m", "l">>>>
          [] f = "n3" -> <<<<".", "n", "3">>>>]

OUTPUT_FORMAT_TO_EXTENSION ==
    [f \in {"xml", "pretty-xml", "rdf-json", "json-ld", "nt", "nquads", "trix", "ttl", "n3"} |->
        CASE f = "xml" -> <<".", "x", "m", "l">>
          [] f = "pretty-xml" -> <<".", "x", "m", "l">>
          [] f = "rdf-json" -> <<".", "j", "s", "o", "n">>
          [] f = "json-ld" -> <<".", "j", "s", "o", "n", "l", "d">>
          [] f = "nt" -> <<".", "n", "t">>
          [] f = "nquads" -> <<".", "n", "q">>
          [] f = "trix" -> <<".", "x", "m", "l">>
          [] f = "ttl" -> <<".", "t", "t", "l">>
          [] f = "n3" -> <<".", "n", "3">>]

\* the value of an option that was not given
None == <<"None">>

(***************************************************************************)
(* The file system.  dirs maps the absolute path of every directory to the *)
(* names of its entries in the order a scan lists them; files maps the     *)
(* absolute path of every regular file to its content.  The content of a   *)
(* file is the graph it holds, named by the path of the file the graph     *)
(* came from, or Garbage when the file holds no parsable graph.            *)
(***************************************************************************)
Garbage == <<"?">>

InitDirs ==
    (<<"/">>      :> << <<"w">>, <<"z">> >>) @@
    (<<"/", "w">>     :> << <<"d">>, <<"o">> >>) @@
    (<<"/", "w", "/", "d">>   :> << <<"y", ".", "t", "t", "l">>, <<"y", ".", "n", "t">>, <<"a">>, <<"b">> >>) @@
    (<<"/", "w", "/", "d", "/", "a">> :> << <<"x", ".", "t", "t", "l">> >>) @@
    (<<"/", "w", "/", "d", "/", "b">> :> << <<"x", ".", "t", "t", "l">>, <<"u", ".", "T", "T", "L">> >>) @@
    (<<"/", "w", "/", "o">>   :> << <<"y", ".", "n", "t">>, <<"g", ".", "t", "t", "l">> >>) @@
    (<<"/", "z">>     :> << <<"x", ".", "t", "t", "l">> >>)

InitFiles ==
    (<<"/", "w", "/", "d", "/", "y", ".", "t", "t", "l">>   :> <<"/", "w", "/", "d", "/", "y", ".", "t", "t", "l">>) @@
    (<<"/", "w", "/", "d", "/", "y", ".", "n", "t">>    :> <<"/", "w", "/", "d", "/", "y", ".", "n", "t">>) @@
    (<<"/", "w", "/", "d", "/", "a", "/", "x", ".", "t", "t", "l">> :> <<"/", "w", "/", "d", "/", "a", "/", "x", ".", "t", "t", "l">>) @@
    (<<"/", "w", "/", "d", "/", "b", "/", "x", ".", "t", "t", "l">> :> <<"/", "w", "/", "d", "/", "b", "/", "x", ".", "t", "t", "l">>) @@
    (<<"/", "w", "/", "d", "/", "b", "/", "u", ".", "T", "T", "L">> :> <<"/", "w", "/", "d", "/", "b", "/", "u", ".", "T", "T", "L">>) @@
    (<<"/", "w", "/", "o", "/", "y", ".", "n", "t">>    :> <<"/", "w", "/", "o", "/", "y", ".", "n", "t">>) @@
    (<<"/", "w", "/", "o", "/", "g", ".", "t", "t", "l">>   :> Garbage) @@
    (<<"/", "z", "/", "x", ".", "t", "t", "l">>     :> <<"/", "z", "/", "x", ".", "t", "t", "l">>)

\* os.path.exists(p) on the file system <<D, F>>
Exists(D, F, p) ==
    /\ p # <<>>
    /\ LET a == AbsPath(p) IN a \in DOMAIN D \/ a \in DOMAIN F

\* os.path.isdir(p)
IsDir(D, p) == p # <<>> /\ AbsPath(p) \in DOMAIN D

\* the directories os.makedirs(name) creates: name and its missing ancestors,
\* the outermost first
RECURSIVE MissingDirs(_, _, _)
MissingDirs(D, F, name) ==
    LET head == Split(name)[1]
        tail == Split(name)[2]
    IN  IF Exists(D, F, name) THEN <<>>
        ELSE IF head # <<>> /\ tail # <<>> /\ ~Exists(D, F, head)
        THEN Append(MissingDirs(D, F, head), name)
        ELSE <<name>>

\* os.mkdir(name) for each name of names, in order
RECURSIVE MkDirs(_, _)
MkDirs(D, names) ==
    IF names = <<>> THEN D
    ELSE LET name   == AbsPath(Head(names))
             parent == Dirname(name)
             entry  == Split(name)[2]
         IN  MkDirs((name :> <<>>) @@ [D EXCEPT ![parent] = Append(@, entry)], Tail(names))

\* os.makedirs(name)
MakeDirs(D, F, name) == MkDirs(D, MissingDirs(D, F, name))

\* a regular file lies on the path p: p or a directory above it is a file, so
\* that neither a directory nor a file can be created at p or below it
BlockedByFile(F, p) ==
    LET name == AbsPath(p)
    IN  \E f \in DOMAIN F : f = name \/ StartsWith(name, f \o <<"/">>)

\* the directory listings after a file was written to path
DirsAfterWrite(D, F, path) ==
    LET name == AbsPath(path)
    IN  IF name \in DOMAIN F THEN D
        ELSE [D EXCEPT ![Dirname(name)] = Append(@, Split(name)[2])]

\* a write that leaves a file that exists as it is; a faulty variant of
\* FilesAfterWrite, used to show that C6 depends on it
FilesAfterWriteKeep(F, path, content) == F @@ (AbsPath(path) :> content)

\* the files after content was written to path
FilesAfterWrite(F, path, content) == (AbsPath(path) :> content) @@ F

\* concatenation of a sequence of sequences
RECURSIVE Flatten(_)
Flatten(ss) == IF ss = <<>> THEN <<>> ELSE Head(ss) \o Flatten(Tail(ss))

\* os.walk(top), top-down: one <<root, dirnames, filenames>> per directory,
\* a directory before its sub-directories
RECURSIVE Walk(_, _)
Walk(D, top) ==
    LET entries   == D[top]
        dirnames  == SelectSeq(entries, LAMBDA e : Join(top, e) \in DOMAIN D)
        filenames == SelectSeq(entries, LAMBDA e : Join(top, e) \notin DOMAIN D)
    IN  << <<top, dirnames, filenames>> >>
        \o Flatten([i \in 1..Len(dirnames) |-> Walk(D, Join(top, dirnames[i]))])

(***************************************************************************)
(* The state of one run.                                                   *)
(***************************************************************************)
VARIABLES
    args,               \* the parsed command line (parse_args)
    script,             \* which of the two scripts runs
    dirs, files,        \* the file system
    rootIdx,            \* position of main's loop over args.INPUT
    input_file_or_dir,  \* the input root the file list was built for
    input_files,        \* the file list of the current input root
    fileIdx,            \* position of the loop over input_files
    pc,                 \* "main", "process", "done" (exit status 0), "exit" (sys.exit or exception)
    error,              \* why the run ended with a non-zero exit status ("none" when it did not)
    log                 \* what the run did so far, in order

vars == <<args, script, dirs, files, rootIdx, input_file_or_dir, input_files, fileIdx, pc, error, log>>

\* the INPUT arguments the model draws from: a directory, a file, a path
\* that does not exist and the root directory
InputArgs == {<<"d">>, <<"d", "/", "y", ".", "n", "t">>, <<"m">>, <<"/">>}

\* the values of -o the model draws from: none, a directory beside the
\* input, the input directory itself, a path that does not exist and a
\* regular file
OutputDirArgs == {None, <<"o">>, <<"d">>, <<"m">>, <<"d", "/", "y", ".", "n", "t">>}

\* the values of --from, --from-ext, --to and --to-ext the model draws from
FormatArgs ==
    { [FROM |-> "ttl", FROM_EXT |-> <<>>, TO |-> "nt", TO_EXT |-> None],
      [FROM |-> "nt",  FROM_EXT |-> <<>>, TO |-> "nt", TO_EXT |-> None],
      [FROM |-> "ttl", FROM_EXT |-> << <<".", "n", "t">>, <<"n", "t">>, <<".", "t", "t", "?">> >>, TO |-> "nt", TO_EXT |-> <<".", "t", "t", "l">>] }

\* the lines the user may type at the overwrite prompt
Answers == { <<"Y", "e", "s">>, <<"n">> }

\* the lists of INPUT arguments: at most MaxRoots arguments, each given once
InputLists ==
    { inp \in UNION {[1..k -> InputArgs] : k \in 1..MaxRoots} :
        \A i, j \in DOMAIN inp : inp[i] = inp[j] => i = j }

\* the arguments of one run
ArgsSet ==
    { [INPUT |-> inp, FROM |-> fm.FROM, FROM_EXT |-> fm.FROM_EXT, recursive |-> r,
       OUTPUTDIR |-> o, TO |-> fm.TO, TO_EXT |-> fm.TO_EXT,
       force |-> f, no_tree |-> n, simulate |-> s] :
         inp \in InputLists, fm \in FormatArgs, r \in BOOLEAN, o \in OutputDirArgs,
         f \in BOOLEAN, n \in BOOLEAN, s \in BOOLEAN }

\* one entry of the log: what was done (op), for which INPUT argument (root)
\* and file, with which output file (target), graph and answer to the
\* prompt; existed tells whether the output file existed when the file was
\* processed
Event(op, file, t, answer, g, existed) ==
    [op |-> op, root |-> rootIdx, file |-> file, target |-> t, answer |-> answer,
     graph |-> g, existed |-> existed]

Discovered(arg)              == Event("discover", arg, <<>>, <<>>, <<>>, FALSE)
ParseFailed(file)            == Event("parsefail", file, <<>>, <<>>, <<>>, FALSE)
Parsed(file, g, t, existed)  == Event("parse", file, t, <<>>, g, existed)
Printed(file, g)             == Event("print", file, <<>>, <<>>, g, FALSE)
Prompted(file, t, answer)    == Event("prompt", file, t, answer, <<>>, TRUE)
Skipped(file, t)             == Event("skip", file, t, <<>>, <<>>, TRUE)
Materialized(op, file, t, g) == Event(op, file, t, <<>>, g, FALSE)
NotADirectory(file, t, g)    == Event("notadir", file, t, <<>>, g, FALSE)

Init ==
    /\ args \in ArgsSet
    /\ script \in {"src/src/rdfconvert.py", "src/rdfconvert.py"}
    /\ dirs = InitDirs
    /\ files = InitFiles
    /\ rootIdx = 1
    /\ input_file_or_dir = <<>>
    /\ input_files = <<>>
    /\ fileIdx = 1
    /\ pc = "main"
    /\ error = "none"
    /\ log = <<>>

(***************************************************************************)
(* main                                                                    *)
(***************************************************************************)
\* the extensions to match (a --from-ext that was not given is the empty list)
input_extensions ==
    IF args.FROM_EXT # <<>> THEN args.FROM_EXT ELSE INPUT_FORMAT_TO_EXTENSIONS[args.FROM]

\* the extension to write
output_extension ==
    IF args.TO_EXT # None /\ args.TO_EXT # <<>> THEN args.TO_EXT
    ELSE OUTPUT_FORMAT_TO_EXTENSION[args.TO]

\* the files of one walked directory that match the extensions: for every
\* extension in turn, the names fnmatch.filter keeps, joined to the directory
MatchesIn(triple, extensions) ==
    Flatten([e \in 1..Len(extensions) |->
        LET names == FnFilter(triple[3], <<"*">> \o extensions[e])
        IN  [i \in 1..Len(names) |-> Join(triple[1], names[i])]])

\* a search that goes down into the sub-directories whether or not
\* --recursive is set; a faulty variant of DiscoverDir, used to show that
\* C11 depends on it
DiscoverDirDeep(D, top, extensions, recursive) ==
    LET walk == Walk(D, top)
    IN  Flatten([i \in 1..Len(walk) |-> MatchesIn(walk[i], extensions)])

\* the file list main builds for the directory top
DiscoverDir(D, top, extensions, recursive) ==
    LET walk    == Walk(D, top)
        visited == IF recursive THEN walk ELSE SubSeq(walk, 1, 1)
    IN  Flatten([i \in 1..Len(visited) |-> MatchesIn(visited[i], extensions)])

\* the file list main builds for the input argument arg
Discover(D, arg, extensions, recursive) ==
    IF IsDir(D, arg) THEN DiscoverDir(D, AbsPath(arg), extensions, recursive)
    ELSE <<arg>>

\* control after the file list of the current root is exhausted:
\* process_input_files returns and main's loop takes the next argument or ends
AfterRoot ==
    /\ rootIdx' = rootIdx + 1
    /\ pc' = IF rootIdx + 1 > Len(args.INPUT) THEN "done" ELSE "main"

\* a main that passes over an input argument that does not exist and goes
\* on with the next; a faulty variant of InputNotFound, used to show that C8
\* depends on it
InputNotFoundSkipped ==
    /\ pc = "main"
    /\ ~Exists(dirs, files, args.INPUT[rootIdx])
    /\ AfterRoot
    /\ UNCHANGED <<args, script, dirs, files, input_file_or_dir, input_files, fileIdx, error, log>>

\* main, one input argument that does not exist: sys.exit
InputNotFound ==
    /\ pc = "main"
    /\ ~Exists(dirs, files, args.INPUT[rootIdx])
    /\ pc' = "exit"
    /\ error' = "InputNotFound"
    /\ UNCHANGED <<args, script, dirs, files, rootIdx, input_file_or_dir, input_files, fileIdx, log>>

\* a main that does not empty input_files for each input argument, so that
\* the list of an argument begins with the lists of the arguments before
\* it; a faulty variant of DiscoverFiles, used to show that C15 depends on it
DiscoverFilesAccumulating ==
    /\ pc = "main"
    /\ LET arg   == args.INPUT[rootIdx]
           isdir == IsDir(dirs, arg)
           list  == input_files \o Discover(dirs, arg, input_extensions, args.recursive)
       IN  /\ Exists(dirs, files, arg)
           /\ input_file_or_dir' = IF isdir THEN AbsPath(arg) ELSE arg
           /\ input_files' = list
           /\ fileIdx' = 1
           /\ log' = Append(log, Discovered(arg))
           /\ IF list = <<>> THEN AfterRoot ELSE pc' = "process" /\ rootIdx' = rootIdx
    /\ UNCHANGED <<args, script, dirs, files, error>>

\* main, one input argument that exists: the file list is built and
\* process_input_files is entered
DiscoverFiles ==
    /\ pc = "main"
    /\ LET arg   == args.INPUT[rootIdx]
           isdir == IsDir(dirs, arg)
           list  == Discover(dirs, arg, input_extensions, args.recursive)
       IN  /\ Exists(dirs, files, arg)
           /\ input_file_or_dir' = IF isdir THEN AbsPath(arg) ELSE arg
           /\ input_files' = list
           /\ fileIdx' = 1
           /\ log' = Append(log, Discovered(arg))
           /\ IF list = <<>> THEN AfterRoot ELSE pc' = "process" /\ rootIdx' = rootIdx
    /\ UNCHANGED <<args, script, dirs, files, error>>

(***************************************************************************)
(* get_output_abs_path and the names process_input_files computes          *)
(***************************************************************************)
\* head[len(common_prefix)+1:]
HeadWithoutCommonPrefix(head, root) == Drop(head, Len(CommonPrefix(head, root)) + 1)

\* a get_output_abs_path that puts every file directly into the output
\* directory, with or without --no-tree; a faulty variant of
\* get_output_abs_path, used to show that C14 depends on it
get_output_abs_path_flat(no_tree, outputdir, root, head) == AbsPath(outputdir)

\* get_output_abs_path(verbose, args, input_file_or_dir, head)
get_output_abs_path(no_tree, outputdir, root, head) ==
    IF no_tree THEN AbsPath(outputdir)
    ELSE Join(AbsPath(outputdir), HeadWithoutCommonPrefix(head, root))

\* os.path.splitext(tail)[0] + output_extension
output_file_name(file, extension) == SplitExt(Split(file)[2])[1] \o extension

\* output_abs_file_name of process_input_files
output_abs_file_name(no_tree, outputdir, root, file, extension) ==
    Join(get_output_abs_path(no_tree, outputdir, root, Split(file)[1]),
         output_file_name(file, extension))

\* a safety check that compares the output file with the input file as it
\* was named, not with its absolute path; a faulty variant of
\* IsSelfOverwrite, used to show that C1 depends on it
IsSelfOverwriteAsNamed(t, file) == t = file

\* the guard of the safety check: the output file is the input file
IsSelfOverwrite(t, file) == t = AbsPath(file)

\* the guard of the overwrite prompt
NeedsPrompt(force, D, F, t) == ~force /\ Exists(D, F, t)

\* yes_or_no.lower() in ["y", "yes"]
Confirms(answer) == Lower(answer) \in {<<"y">>, <<"y", "e", "s">>}

\* a materialization that writes the file without creating its missing
\* directory; a faulty variant of DirsAfterMaterialize, used to show that C12
\* depends on it
DirsAfterMaterializeNoMkdir(simulate, D, F, t) ==
    IF simulate \/ ~IsDir(D, Dirname(t)) THEN D ELSE DirsAfterWrite(D, F, t)

\* a materialization that creates the missing directories even in a
\* simulation; a faulty variant of DirsAfterMaterialize, used to show that
\* C3 depends on it
DirsAfterMaterializeEager(simulate, D, F, t) ==
    LET d    == Dirname(t)
        made == IF ~Exists(D, F, d) THEN MakeDirs(D, F, d) ELSE D
    IN  IF simulate THEN made ELSE DirsAfterWrite(made, F, t)

\* the directories after the file with output file t was materialized:
\* unless simulating, the missing directory of t is created with its
\* missing ancestors and t is written
DirsAfterMaterialize(simulate, D, F, t) ==
    IF simulate THEN D
    ELSE LET d    == Dirname(t)
             made == IF ~Exists(D, F, d) THEN MakeDirs(D, F, d) ELSE D
         IN  DirsAfterWrite(made, F, t)

\* the files after the graph g was materialized as t
FilesAfterMaterialize(simulate, F, t, g) ==
    IF simulate THEN F ELSE FilesAfterWrite(F, t, g)

\* what materializing t does and prints: the directory is created (or, in a
\* simulation, announced) only when it is missing
MaterializeLog(simulate, D, F, file, t, g) ==
    LET d == Dirname(t)
    IN  (IF ~Exists(D, F, d)
         THEN << Materialized(IF simulate THEN "simdir" ELSE "mkdir", file, d, g) >>
         ELSE <<>>)
        \o << Materialized(IF simulate THEN "simfile" ELSE "write", file, t, g) >>

(***************************************************************************)
(* process_input_files: one action per way through the body of the loop    *)
(***************************************************************************)
\* the file the loop is at, the graph parsed from it and where it goes
input_file == input_files[fileIdx]
graph      == files[AbsPath(input_file)]
target     == output_abs_file_name(args.no_tree, args.OUTPUTDIR, input_file_or_dir,
                                   input_file, output_extension)

\* control at the end of the body of the loop
AfterFile ==
    /\ fileIdx' = fileIdx + 1
    /\ IF fileIdx + 1 > Len(input_files) THEN AfterRoot
       ELSE pc' = "process" /\ rootIdx' = rootIdx

\* the run ends with a non-zero exit status
Abort(why) ==
    /\ pc' = "exit"
    /\ error' = why
    /\ UNCHANGED <<rootIdx, fileIdx>>

\* the graph g was parsed and processing reaches the prompt with the output
\* file t: the output directory exists and t is not the input file
Resolved(g, t) ==
    /\ g # Garbage
    /\ Exists(dirs, files, args.OUTPUTDIR)
    /\ ~IsSelfOverwrite(t, input_file)

\* a loop that catches the exception of g.parse and goes on with the next
\* file; a faulty variant of ParseFailure, used to show that C13 depends on it
ParseFailureSkipped ==
    /\ pc = "process"
    /\ graph = Garbage
    /\ log' = Append(log, ParseFailed(input_file))
    /\ AfterFile
    /\ UNCHANGED <<args, script, dirs, files, input_file_or_dir, input_files, error>>

\* g.parse raises: the exception ends the run
ParseFailure ==
    /\ pc = "process"
    /\ graph = Garbage
    /\ log' = Append(log, ParseFailed(input_file))
    /\ Abort("ParseFailure")
    /\ UNCHANGED <<args, script, dirs, files, input_file_or_dir, input_files>>

\* a print that --simulate suppresses; a faulty variant of PrintOutput, used
\* to show that C9 depends on it
PrintOutputUnlessSimulate ==
    /\ pc = "process"
    /\ args.OUTPUTDIR = None
    /\ LET g == graph
       IN  /\ g # Garbage
           /\ log' = log \o << Parsed(input_file, g, <<>>, FALSE) >>
                          \o (IF args.simulate THEN <<>> ELSE << Printed(input_file, g) >>)
    /\ AfterFile
    /\ UNCHANGED <<args, script, dirs, files, input_file_or_dir, input_files, error>>

\* no output directory: the graph is serialized and printed
PrintOutput ==
    /\ pc = "process"
    /\ args.OUTPUTDIR = None
    /\ LET g == graph
       IN  /\ g # Garbage
           /\ log' = log \o << Parsed(input_file, g, <<>>, FALSE), Printed(input_file, g) >>
    /\ AfterFile
    /\ UNCHANGED <<args, script, dirs, files, input_file_or_dir, input_files, error>>

\* the output directory does not exist: sys.exit
OutputDirNotFound ==
    /\ pc = "process"
    /\ args.OUTPUTDIR # None
    /\ LET g == graph
       IN  /\ g # Garbage
           /\ ~Exists(dirs, files, args.OUTPUTDIR)
           /\ log' = Append(log, Parsed(input_file, g, <<>>, FALSE))
    /\ Abort("OutputDirNotFound")
    /\ UNCHANGED <<args, script, dirs, files, input_file_or_dir, input_files>>

\* the output file is the input file: sys.exit
SelfOverwrite ==
    /\ pc = "process"
    /\ args.OUTPUTDIR # None
    /\ LET g == graph
           t == target
       IN  /\ g # Garbage
           /\ Exists(dirs, files, args.OUTPUTDIR)
           /\ IsSelfOverwrite(t, input_file)
           /\ log' = Append(log, Parsed(input_file, g, t, Exists(dirs, files, t)))
    /\ Abort("SelfOverwrite")
    /\ UNCHANGED <<args, script, dirs, files, input_file_or_dir, input_files>>

\* src/rdfconvert.py reads the answer with raw_input, a name Python 3 does
\* not define: NameError ends the run before a prompt is shown
PromptNameError ==
    /\ pc = "process"
    /\ script = "src/rdfconvert.py"
    /\ ~args.force
    /\ args.OUTPUTDIR # None
    /\ LET g == graph
           t == target
       IN  /\ Resolved(g, t)
           /\ NeedsPrompt(args.force, dirs, files, t)
           /\ log' = Append(log, Parsed(input_file, g, t, TRUE))
    /\ Abort("NameError")
    /\ UNCHANGED <<args, script, dirs, files, input_file_or_dir, input_files>>

\* the prompt is shown and standard input is at its end: input raises EOFError
PromptEOF ==
    /\ pc = "process"
    /\ script = "src/src/rdfconvert.py"
    /\ ~args.force
    /\ args.OUTPUTDIR # None
    /\ LET g == graph
           t == target
       IN  /\ Resolved(g, t)
           /\ NeedsPrompt(args.force, dirs, files, t)
           /\ log' = log \o << Parsed(input_file, g, t, TRUE), Prompted(input_file, t, None) >>
    /\ Abort("EOFError")
    /\ UNCHANGED <<args, script, dirs, files, input_file_or_dir, input_files>>

\* the prompt is answered with something else than y or yes: the file is skipped
SkipFile ==
    /\ pc = "process"
    /\ script = "src/src/rdfconvert.py"
    /\ ~args.force
    /\ args.OUTPUTDIR # None
    /\ LET g == graph
           t == target
       IN  /\ Resolved(g, t)
           /\ NeedsPrompt(args.force, dirs, files, t)
           /\ \E answer \in Answers :
               /\ ~Confirms(answer)
               /\ log' = log \o << Parsed(input_file, g, t, TRUE),
                                   Prompted(input_file, t, answer),
                                   Skipped(input_file, t) >>
    /\ AfterFile
    /\ UNCHANGED <<args, script, dirs, files, input_file_or_dir, input_files, error>>

\* the file is not skipped: no prompt is needed (needed is false) and none is
\* answered (answer is None), or the prompt is needed and answered y or yes
Authorized(needed, answer) ==
    IF answer = None THEN ~needed
    ELSE needed /\ script = "src/src/rdfconvert.py" /\ Confirms(answer)

\* the log of a file that is not skipped, up to the point where it is materialized
AuthorizedLog(g, t, answer) ==
    log \o << Parsed(input_file, g, t, Exists(dirs, files, t)) >>
        \o (IF answer = None THEN <<>> ELSE << Prompted(input_file, t, answer) >>)

\* the file is not skipped and simulate is set: the messages are printed
SimulateFile ==
    /\ pc = "process"
    /\ args.simulate
    /\ args.OUTPUTDIR # None
    /\ LET g      == graph
           t      == target
           needed == NeedsPrompt(args.force, dirs, files, t)
       IN  /\ Resolved(g, t)
           /\ \E answer \in Answers \cup {None} :
               /\ Authorized(needed, answer)
               /\ log' = AuthorizedLog(g, t, answer)
                           \o MaterializeLog(args.simulate, dirs, files, input_file, t, g)
           /\ dirs' = DirsAfterMaterialize(args.simulate, dirs, files, t)
           /\ files' = FilesAfterMaterialize(args.simulate, files, t, g)
    /\ AfterFile
    /\ UNCHANGED <<args, script, input_file_or_dir, input_files, error>>

\* a loop that finds the files it writes: the output file joins the list that
\* is being processed, as it would if the directories were searched while the
\* files are processed; a faulty variant of WriteFile, used to show that C16
\* depends on it
WriteFileListed ==
    /\ pc = "process"
    /\ ~args.simulate
    /\ args.OUTPUTDIR # None
    /\ LET g      == graph
           t      == target
           needed == NeedsPrompt(args.force, dirs, files, t)
       IN  /\ Resolved(g, t)
           /\ ~BlockedByFile(files, Dirname(t))
           /\ \E answer \in Answers \cup {None} :
               /\ Authorized(needed, answer)
               /\ log' = AuthorizedLog(g, t, answer)
                           \o MaterializeLog(args.simulate, dirs, files, input_file, t, g)
           /\ dirs' = DirsAfterMaterialize(args.simulate, dirs, files, t)
           /\ files' = FilesAfterMaterialize(args.simulate, files, t, g)
           /\ input_files' = Append(input_files, t)
    /\ fileIdx' = fileIdx + 1
    /\ pc' = "process"
    /\ rootIdx' = rootIdx
    /\ UNCHANGED <<args, script, input_file_or_dir, error>>

\* the file is not skipped and simulate is not set: the missing directories
\* are created and the graph is written
WriteFile ==
    /\ pc = "process"
    /\ ~args.simulate
    /\ args.OUTPUTDIR # None
    /\ LET g      == graph
           t      == target
           needed == NeedsPrompt(args.force, dirs, files, t)
       IN  /\ Resolved(g, t)
           /\ ~BlockedByFile(files, Dirname(t))
           /\ \E answer \in Answers \cup {None} :
               /\ Authorized(needed, answer)
               /\ log' = AuthorizedLog(g, t, answer)
                           \o MaterializeLog(args.simulate, dirs, files, input_file, t, g)
           /\ dirs' = DirsAfterMaterialize(args.simulate, dirs, files, t)
           /\ files' = FilesAfterMaterialize(args.simulate, files, t, g)
    /\ AfterFile
    /\ UNCHANGED <<args, script, input_file_or_dir, input_files, error>>

\* the file is not skipped, simulate is not set and a regular file lies on
\* the path of the directory of the output file: os.makedirs (the directory
\* is missing) or g.serialize (it "exists", as a file) raises
\* NotADirectoryError, nothing is created and the exception ends the run
WriteFailure ==
    /\ pc = "process"
    /\ ~args.simulate
    /\ args.OUTPUTDIR # None
    /\ LET g      == graph
           t      == target
           needed == NeedsPrompt(args.force, dirs, files, t)
       IN  /\ Resolved(g, t)
           /\ BlockedByFile(files, Dirname(t))
           /\ \E answer \in Answers \cup {None} :
               /\ Authorized(needed, answer)
               /\ log' = Append(AuthorizedLog(g, t, answer), NotADirectory(input_file, t, g))
    /\ Abort("NotADirectoryError")
    /\ UNCHANGED <<args, script, dirs, files, input_file_or_dir, input_files>>

Next ==
    \/ InputNotFound
    \/ DiscoverFiles
    \/ ParseFailure
    \/ PrintOutput
    \/ OutputDirNotFound
    \/ SelfOverwrite
    \/ PromptNameError
    \/ PromptEOF
    \/ SkipFile
    \/ SimulateFile
    \/ WriteFile
    \/ WriteFailure

Spec == Init /\ [][Next]_vars

(***************************************************************************)
(* Properties.  Every entry of the log was once among the entries of the   *)
(* file processed last, so an invariant that speaks of the file processed  *)
(* last speaks of every file of the run.                                   *)
(***************************************************************************)
\* the position in log[1..n] of the last entry that opens a file, 0 when
\* there is none
RECURSIVE LastParse(_)
LastParse(n) ==
    IF n = 0 \/ log[n].op \in {"parse", "parsefail"} THEN n ELSE LastParse(n - 1)

\* the entries of the file processed last, in order
Cur ==
    LET i == LastParse(Len(log))
    IN  IF i = 0 THEN <<>>
        ELSE SelectSeq(SubSeq(log, i, Len(log)), LAMBDA e : e.op # "discover")

\* the components of a path
Comps(p) == SelectSeq(StrSplit(p, "/"), LAMBDA c : c # <<>>)

\* the positions of the log where a file was parsed and its output file computed
ResolvedIdx == {i \in 1..Len(log) : log[i].op = "parse" /\ log[i].target # <<>>}

\* the positions of the log where an output file was written
WriteIdx == {i \in 1..Len(log) : log[i].op = "write"}

\* the file at hand was parsed, the output directory exists and the output
\* file is not the input file: processing reaches the overwrite check
ReachesOverwriteCheck ==
    /\ pc = "process"
    /\ args.OUTPUTDIR # None
    /\ Resolved(graph, target)

\* the step logs a prompt for the file at hand
PromptLogged ==
    /\ Len(log') >= Len(log) + 2
    /\ log'[Len(log) + 2].op = "prompt"

\* an extension without a character that fnmatch reads as a wildcard
IsLiteral(extension) ==
    \A k \in 1..Len(extension) : extension[k] \notin {"*", "?", "["}

----------------------------------------------------------------------------
\* C1: a file whose output file is computed to be the absolute path of the
\* file itself ends the run with the fatal error SelfOverwrite, and nothing
\* is logged for it but that it was parsed: no prompt, no directory, no
\* write; no write ever goes to the absolute path of the file it came from.
C1_SelfOverwriteIsFatal ==
    LET c == Cur
    IN  (c # <<>> /\ c[1].target # <<>>) =>
            LET self == (c[1].target = AbsPath(c[1].file))
            IN  /\ self => /\ Len(c) = 1
                           /\ log[Len(log)] = c[1]
                           /\ pc = "exit"
                           /\ error = "SelfOverwrite"
                /\ \A k \in 1..Len(c) :
                       c[k].op \in {"prompt", "skip", "mkdir", "simdir", "write", "simfile"}
                           => ~self

\* a run that wrote a file and then met a file whose output is the file itself
C1_Witness ==
    /\ error = "SelfOverwrite"
    /\ log[Len(log)].target = AbsPath(log[Len(log)].file)
    /\ \E i \in 1..Len(log) : log[i].op = "write"

----------------------------------------------------------------------------
\* C2 (as the specification states it): without --no-tree, the output file
\* of every file lies under the absolute output directory, and its directory
\* relative to the output directory is the directory of the file relative
\* to the input argument it was found under (nothing for an argument that
\* names a file).
C2_MirrorsTree ==
    LET c == Cur
    IN  (c # <<>> /\ c[1].target # <<>> /\ ~args.no_tree) =>
            LET arg == args.INPUT[c[1].root]
                out == Comps(AbsPath(args.OUTPUTDIR))
                dir == Comps(Dirname(AbsPath(c[1].file)))
                rel == IF IsDir(dirs, arg)
                       THEN SubSeq(dir, Len(Comps(AbsPath(arg))) + 1, Len(dir))
                       ELSE <<>>
            IN  Comps(Dirname(c[1].target)) = out \o rel

\* the same for the input arguments other than the root directory "/"
MirrorsTreeBelowRoot ==
    LET c == Cur
    IN  (c # <<>> /\ c[1].target # <<>> /\ ~args.no_tree
            /\ AbsPath(args.INPUT[c[1].root]) # <<"/">>) =>
            LET arg == args.INPUT[c[1].root]
                out == Comps(AbsPath(args.OUTPUTDIR))
                dir == Comps(Dirname(AbsPath(c[1].file)))
                rel == IF IsDir(dirs, arg)
                       THEN SubSeq(dir, Len(Comps(AbsPath(arg))) + 1, Len(dir))
                       ELSE <<>>
            IN  Comps(Dirname(c[1].target)) = out \o rel

----------------------------------------------------------------------------
\* C3: with --simulate the file system stays as it was when the run began,
\* whatever --force, --no-tree, the output files that exist and the answers
\* to the prompts are.
C3_SimulateTouchesNothing ==
    args.simulate => dirs = InitDirs /\ files = InitFiles

\* a simulation that ran to its end, announced a directory and a file and
\* had an overwrite confirmed
C3_Witness ==
    /\ args.simulate
    /\ pc = "done"
    /\ \E i \in 1..Len(log) : log[i].op = "simdir"
    /\ \E i \in 1..Len(log) : log[i].op = "simfile"
    /\ \E i \in 1..Len(log) : log[i].op = "prompt" /\ Confirms(log[i].answer)

----------------------------------------------------------------------------
\* C4 (as the specification states it): when --force is not set and the
\* output file exists, the prompt is shown, and an answer other than y or
\* yes skips the file: the file system stays as it is, no error is raised
\* and the run goes on with the next file.
C4_DeclineSkipsFile ==
    [][ (ReachesOverwriteCheck /\ NeedsPrompt(args.force, dirs, files, target)) =>
            /\ PromptLogged
            /\ LET answer == log'[Len(log) + 2].answer
               IN  (answer # None /\ ~Confirms(answer)) =>
                       /\ files' = files
                       /\ dirs' = dirs
                       /\ error' = "none"
                       /\ pc' # "exit"
                       /\ fileIdx' = fileIdx + 1 ]_vars

----------------------------------------------------------------------------
\* C5 (as the specification states it): a prompt is shown for a file exactly
\* when --force is not set and the output file exists when the file is
\* processed.
C5_PromptIffExistsWithoutForce ==
    [][ ReachesOverwriteCheck =>
            (PromptLogged <=> (~args.force /\ Exists(dirs, files, target))) ]_vars

----------------------------------------------------------------------------
----------------------------------------------------------------------------
\* C7 (as the specification states it): when -o names a path that does not
\* exist, no file is parsed and the run does not end with exit status 0.
C7_MissingOutputDirStopsFirst ==
    (args.OUTPUTDIR # None /\ ~Exists(dirs, files, args.OUTPUTDIR)) =>
        /\ \A i \in 1..Len(log) : log[i].op \notin {"parse", "parsefail"}
        /\ pc # "done"

----------------------------------------------------------------------------
\* C8: an input argument that does not exist ends the run with the fatal
\* error InputNotFound when main reaches it: main never gets past it, the
\* run never ends with exit status 0, and nothing is discovered, parsed or
\* written for it or for a later argument.
C8_MissingInputAborts ==
    \A k \in 1..Len(args.INPUT) :
        ~Exists(dirs, files, args.INPUT[k]) =>
            /\ rootIdx <= k
            /\ pc # "done"
            /\ rootIdx = k => pc \in {"main", "exit"}
            /\ (rootIdx = k /\ pc = "exit") => error = "InputNotFound"
            /\ \A i \in 1..Len(log) : log[i].root < k

\* a run that wrote a file for its first argument and ended at the second,
\* which does not exist
C8_Witness ==
    /\ error = "InputNotFound"
    /\ pc = "exit"
    /\ rootIdx = 2
    /\ \E i \in 1..Len(log) : log[i].op = "write"

----------------------------------------------------------------------------
\* C9: without -o the file system stays as it was when the run began, and
\* every file that was parsed is printed next, with nothing in between: no
\* check of the output directory, no self-overwrite check, no prompt, no
\* simulation, whatever --force, --simulate, --no-tree and --to-ext are.
C9_StdoutOnlyPrints ==
    args.OUTPUTDIR = None =>
        /\ dirs = InitDirs
        /\ files = InitFiles
        /\ error \in {"none", "InputNotFound", "ParseFailure"}
        /\ \A i \in 1..Len(log) :
               /\ log[i].op \in {"discover", "parse", "print", "parsefail"}
               /\ log[i].op = "parse" =>
                      /\ i < Len(log)
                      /\ log[i + 1].op = "print"
                      /\ log[i + 1].file = log[i].file
                      /\ log[i + 1].graph = log[i].graph

\* a run without -o and with --simulate and --to-ext that printed two files
\* and ended without error
C9_Witness ==
    /\ args.OUTPUTDIR = None
    /\ args.simulate
    /\ args.TO_EXT # None
    /\ pc = "done"
    /\ \E i, j \in 1..Len(log) : i < j /\ log[i].op = "print" /\ log[j].op = "print"

----------------------------------------------------------------------------
\* C10 (as the specification states it): every file found under an input
\* directory ends with one of the extensions, taken as a literal suffix; an
\* input argument that names a file is the only file of its list.
C10_LiteralSuffix ==
    (pc = "process" /\ fileIdx = 1) =>
        IF IsDir(dirs, args.INPUT[rootIdx])
        THEN \A i \in 1..Len(input_files) :
                 \E e \in 1..Len(input_extensions) :
                     EndsWith(input_files[i], input_extensions[e])
        ELSE input_files = <<args.INPUT[rootIdx]>>

\* C10 (amended): every file found under an input directory has a name that
\* matches "*" followed by one of the extensions as an fnmatch pattern; for
\* an extension without the wildcard characters *, ? and [ that is to end
\* with the extension, in the same case; an input argument that names a
\* file is the only file of its list.
C10_PatternSuffix ==
    (pc = "process" /\ fileIdx = 1) =>
        IF IsDir(dirs, args.INPUT[rootIdx])
        THEN \A i \in 1..Len(input_files) :
                 \E e \in 1..Len(input_extensions) :
                     LET extension == input_extensions[e]
                     IN  IF IsLiteral(extension)
                         THEN EndsWith(input_files[i], extension)
                         ELSE FnMatch(Split(input_files[i])[2], <<"*">> \o extension)
        ELSE input_files = <<args.INPUT[rootIdx]>>

\* a directory searched with a literal extension and an extension with a
\* wildcard, which found a file for each
C10_Witness ==
    /\ pc = "process"
    /\ fileIdx = 1
    /\ IsDir(dirs, args.INPUT[rootIdx])
    /\ \E e \in 1..Len(input_extensions) : ~IsLiteral(input_extensions[e])
    /\ \E i, j \in 1..Len(input_files) :
           /\ EndsWith(input_files[i], <<".", "n", "t">>)
           /\ EndsWith(input_files[j], <<".", "t", "t", "l">>)

----------------------------------------------------------------------------
\* the file list of an input argument was just built: the log ends with the
\* entry of the argument, and input_files is its list
JustDiscovered == Len(log) > 0 /\ log[Len(log)].op = "discover"

\* the name matches "*" followed by one of the extensions
MatchesSome(name, extensions) ==
    \E e \in 1..Len(extensions) : FnMatch(name, <<"*">> \o extensions[e])

\* C11: without --recursive, every file of the list of an input directory
\* lies directly in that directory, and every regular file directly in the
\* directory whose name matches one of the extensions is in the list.
C11_NonRecursiveTopOnly ==
    (JustDiscovered /\ ~args.recursive /\ IsDir(dirs, log[Len(log)].file)) =>
        LET top == AbsPath(log[Len(log)].file)
        IN  /\ \A i \in 1..Len(input_files) : Dirname(input_files[i]) = top
            /\ \A k \in 1..Len(dirs[top]) :
                   LET name == dirs[top][k]
                   IN  (Join(top, name) \in DOMAIN files
                            /\ MatchesSome(name, input_extensions))
                           => \E i \in 1..Len(input_files) : input_files[i] = Join(top, name)

\* a search without --recursive of the directory d, which holds a matching
\* file and sub-directories with matching files: only the former is listed
C11_Witness ==
    /\ JustDiscovered
    /\ ~args.recursive
    /\ log[Len(log)].file = <<"d">>
    /\ input_files = << <<"/", "w", "/", "d", "/", "y", ".", "t", "t", "l">> >>
    /\ MatchesSome(<<"x", ".", "t", "t", "l">>, input_extensions)
    /\ <<"/", "w", "/", "d", "/", "a", "/", "x", ".", "t", "t", "l">> \in DOMAIN files

----------------------------------------------------------------------------
\* the directory p is the directory d or lies above it
IsAncestorOrSelf(p, d) ==
    p = d \/ StartsWith(d, IF p = <<"/">> THEN p ELSE p \o <<"/">>)

\* C12: without --simulate, every directory the run created is the
\* directory of a file the run wrote or lies above it; the directory of
\* every file the run wrote exists; and a directory is created only for a
\* file that was parsed, is not its own output file and was not skipped,
\* as the directory of the output file, which is written next.
C12_DirsOnlyForWrites ==
    ~args.simulate =>
        /\ \A p \in (DOMAIN dirs) \ (DOMAIN InitDirs) :
               \E i \in WriteIdx : IsAncestorOrSelf(p, Dirname(log[i].target))
        /\ \A i \in WriteIdx : Dirname(log[i].target) \in DOMAIN dirs
        /\ LET c == Cur
           IN  \A k \in 1..Len(c) :
                   c[k].op = "mkdir" =>
                       /\ k > 1
                       /\ c[1].op = "parse"
                       /\ c[1].file = c[k].file
                       /\ c[1].target # AbsPath(c[1].file)
                       /\ \A j \in 1..Len(c) : c[j].op # "skip"
                       /\ k < Len(c)
                       /\ c[k + 1].op = "write"
                       /\ c[k + 1].file = c[k].file
                       /\ c[k].target = Dirname(c[k + 1].target)
                       /\ c[k].target \notin DOMAIN InitDirs

\* a run that searched sub-directories without a matching file, created a
\* directory for a file it wrote and ended without error
C12_Witness ==
    /\ ~args.simulate
    /\ args.recursive
    /\ pc = "done"
    /\ ~MatchesSome(<<"x", ".", "t", "t", "l">>, input_extensions)
    /\ \E i \in 1..Len(log) : log[i].op = "mkdir"
    /\ (DOMAIN dirs) \ (DOMAIN InitDirs) # {}

----------------------------------------------------------------------------
\* C13: a file that does not parse ends the run with the parser's
\* exception: its entry is the last of the log, so nothing is printed or
\* written for it, and no file after it and no later input argument is
\* searched, parsed or written.
C13_ParseFailureAborts ==
    \A i \in 1..Len(log) :
        log[i].op = "parsefail" =>
            /\ i = Len(log)
            /\ pc = "exit"
            /\ error = "ParseFailure"
            /\ log[i].file = input_files[fileIdx]
            /\ log[i].root = rootIdx
            /\ AbsPath(log[i].file) \in DOMAIN files
            /\ files[AbsPath(log[i].file)] = Garbage

\* a run that wrote a file, then met a file that does not parse while
\* another file of the list and another input argument were still to come
C13_Witness ==
    /\ error = "ParseFailure"
    /\ log[Len(log)].op = "parsefail"
    /\ fileIdx < Len(input_files)
    /\ rootIdx < Len(args.INPUT)
    /\ \E i \in 1..Len(log) : log[i].op = "write"

----------------------------------------------------------------------------
\* the name of the file without its directory and its extension
Stem(file) == SplitExt(Split(file)[2])[1]

\* C14 (as the specification states it): without --no-tree, two different
\* input files of one run never have the same output file.
C14_DistinctTargets ==
    ~args.no_tree =>
        \A i, j \in ResolvedIdx :
            (i < j /\ log[i].target = log[j].target)
                => AbsPath(log[i].file) = AbsPath(log[j].file)

\* C14 (amended): without --no-tree, two input files found under the same
\* input directory, other than the root directory "/", have the same
\* output file only when they lie in the same directory and their names
\* differ at most in the extension.
C14_DistinctUnderOneRoot ==
    ~args.no_tree =>
        \A i, j \in ResolvedIdx :
            ( /\ i < j
              /\ log[i].target = log[j].target
              /\ log[i].root = log[j].root
              /\ IsDir(dirs, args.INPUT[log[i].root])
              /\ AbsPath(args.INPUT[log[i].root]) # <<"/">> )
            => /\ Dirname(log[i].file) = Dirname(log[j].file)
               /\ Stem(log[i].file) = Stem(log[j].file)

\* a run that wrote, for one input directory, two files of the same name
\* from different directories to different output files, and two files of
\* one directory that differ in the extension to the same output file
C14_Witness ==
    /\ ~args.no_tree
    /\ \E i, j \in WriteIdx :
           /\ i < j
           /\ log[i].root = log[j].root
           /\ IsDir(dirs, args.INPUT[log[i].root])
           /\ AbsPath(args.INPUT[log[i].root]) # <<"/">>
           /\ Split(log[i].file)[2] = Split(log[j].file)[2]
           /\ Dirname(log[i].file) # Dirname(log[j].file)
           /\ log[i].target # log[j].target
    /\ \E i, j \in WriteIdx :
           /\ i < j
           /\ log[i].root = log[j].root
           /\ log[i].file # log[j].file
           /\ log[i].target = log[j].target

----------------------------------------------------------------------------
\* how often x occurs in the sequence seq
Count(seq, x) == Cardinality({i \in 1..Len(seq) : seq[i] = x})

\* the positions of the extensions whose pattern the name of the file matches
MatchingExtensions(file, extensions) ==
    {e \in 1..Len(extensions) : FnMatch(Split(file)[2], <<"*">> \o extensions[e])}

\* no default extension ends with another extension of the same format,
\* and none holds a wildcard: no name matches two of them
DefaultExtensionsDisjoint ==
    \A f \in DOMAIN INPUT_FORMAT_TO_EXTENSIONS :
        LET extensions == INPUT_FORMAT_TO_EXTENSIONS[f]
        IN  \A a, b \in 1..Len(extensions) :
                /\ IsLiteral(extensions[a])
                /\ a # b => ~EndsWith(extensions[a], extensions[b])

\* C15 (as the specification states it): the list of an input directory
\* holds every file at most once.
C15_NoDuplicates ==
    (JustDiscovered /\ IsDir(dirs, log[Len(log)].file)) =>
        \A i, j \in 1..Len(input_files) : input_files[i] = input_files[j] => i = j

\* C15 (amended): the list of an input directory holds a file once for
\* every extension of the list whose pattern the name of the file matches;
\* that is once with the default extensions of a format, of which no two
\* match the same name.
C15_OncePerMatchingExtension ==
    (JustDiscovered /\ IsDir(dirs, log[Len(log)].file)) =>
        /\ DefaultExtensionsDisjoint
        /\ \A i \in 1..Len(input_files) :
               /\ Count(input_files, input_files[i])
                      = Cardinality(MatchingExtensions(input_files[i], input_extensions))
               /\ args.FROM_EXT = <<>> => Count(input_files, input_files[i]) = 1

\* the list of the directory d for the extensions .nt, nt and .tt?: y.nt is
\* in it twice and y.ttl once
C15_Witness ==
    /\ JustDiscovered
    /\ log[Len(log)].file = <<"d">>
    /\ Count(input_files, <<"/", "w", "/", "d", "/", "y", ".", "n", "t">>) = 2
    /\ Count(input_files, <<"/", "w", "/", "d", "/", "y", ".", "t", "t", "l">>) = 1

----------------------------------------------------------------------------
\* the input arguments are handled one after another in the order given,
\* and the list of an argument is built once, before anything else is done
\* for the argument
RootsInOrder ==
    /\ \A i, j \in 1..Len(log) : i < j => log[i].root <= log[j].root
    /\ \A i, j \in 1..Len(log) : (i < j /\ log[j].op = "discover") => log[i].root < log[j].root
    /\ \A i \in 1..Len(log) : log[i].root <= rootIdx

\* the write at position i of the log created its file: the file did not
\* exist when the input file it came from was processed
Creates(i) == log[i].op = "write" /\ ~log[LastParse(i)].existed

\* a file the run created is parsed only for a later input argument
CreatedParsedOnlyLater ==
    \A i, j \in 1..Len(log) :
        ( /\ i < j
          /\ Creates(i)
          /\ log[j].op \in {"parse", "parsefail"}
          /\ AbsPath(log[j].file) = log[i].target )
        => log[i].root < log[j].root

\* the list of an input argument does not change while its files are
\* processed, and processing goes on with the same argument or the next
ListFixedWhileProcessed ==
    pc = "process" =>
        /\ input_files' = input_files
        /\ input_file_or_dir' = input_file_or_dir
        /\ rootIdx' \in {rootIdx, rootIdx + 1}

\* C16 (as the specification states it): no file the run wrote is parsed
\* later in the run.
C16_WrittenNeverParsed ==
    \A i, j \in 1..Len(log) :
        (i < j /\ log[i].op = "write" /\ log[j].op \in {"parse", "parsefail"})
            => AbsPath(log[j].file) # log[i].target

\* C16 (amended): the list of an input argument is built before any of its
\* files is parsed or written and does not change afterwards, the input
\* arguments are handled one after another in the order given, and a file
\* the run created is parsed, if at all, only for a later input argument.
C16_ListBuiltFirst ==
    /\ [](RootsInOrder /\ CreatedParsedOnlyLater)
    /\ [][ListFixedWhileProcessed]_vars

\* a run that wrote a file for its first input argument and parsed what it
\* wrote for its second, a directory that holds the output directory
C16_Witness ==
    \E i, j \in 1..Len(log) :
        /\ i < j
        /\ log[i].op = "write"
        /\ log[j].op = "parse"
        /\ AbsPath(log[j].file) = log[i].target
        /\ log[i].root < log[j].root
        /\ log[j].graph = log[i].graph
        /\ log[j].graph # log[j].file

====
